---- MODULE Spec2Model ----
(***************************************************************************)
(* Model of ai_diffusion/document.py: the Document facade over a Krita     *)
(* document (colour-mode validation, mask extraction from the selection,   *)
(* composited read with a temporarily hidden layer, layer insertion and    *)
(* content overwrite) and the PoseLayers polling loop.                     *)
(*                                                                         *)
(* The host (krita.Document, krita.Node, krita.Selection) is modelled by   *)
(* the state the facade reads and writes.  Extent, Bounds, Mask, Image     *)
(* (ai_diffusion/image.py) and Pose (ai_diffusion/pose.py) are modelled    *)
(* from their specified contracts.                                         *)
(***************************************************************************)
EXTENDS Integers, Sequences, FiniteSets, TLC

VARIABLES
    colorModel,     \* self._doc.colorModel()
    colorDepth,     \* self._doc.colorDepth()
    extent,         \* Extent(self._doc.width(), self._doc.height())
    selection,      \* self._doc.selection(): a selection record or None
    nodes,          \* self._doc.rootNode().childNodes(), bottom-most first
    grouped,        \* layers of the document that are not children of the root
    kind,           \* layer id -> node type
    visible,        \* layer id -> visibility flag
    content,        \* layer id -> pixels of the layer (point -> value)
    svgs,           \* layer id -> SVG fragments added to a vector layer
    projection,     \* composited pixels as of the last refreshProjection()
    activeDocument, \* Krita.instance().activeDocument(): a document id or None
    documents,      \* document id -> [extent, activeNode] of an open document
    shapes,         \* layer id -> shapes of the layer, seen by the pose loop
    alive,          \* layer ids that still exist in their document
    _layers,        \* PoseLayers._layers: layer id -> Pose
    ret             \* the last call: its arguments, host calls and outcome

colorVars == <<colorModel, colorDepth>>
maskVars == <<extent, selection>>
layerVars == <<nodes, grouped, kind, visible, content, svgs, projection>>
poseVars == <<activeDocument, documents, shapes, alive, _layers>>
vars == <<colorVars, maskVars, layerVars, poseVars, ret>>

\* Python's None where an object is optional; where a layer is optional
None == << >>
NoLayer == 0
Raised(what) == [raised |-> what]

(***************************************************************************)
(* Value types of image.py                                                 *)
(***************************************************************************)
Extent(w, h) == [width |-> w, height |-> h]
Bounds(x, y, w, h) == [x |-> x, y |-> y, width |-> w, height |-> h]
BoundsExtent(b) == Extent(b.width, b.height)
Max(a, b) == IF a >= b THEN a ELSE b
Min(a, b) == IF a <= b THEN a ELSE b

\* Extent.diagonal squared: width^2 + height^2
DiagonalSq(e) == e.width * e.width + e.height * e.height

\* multiple_of: the least multiple of `multiple` that is >= n
RoundUp(n, multiple) == ((n + multiple - 1) \div multiple) * multiple

\* Bounds.pad: grow by `margin` on every side, then round width and height
\* up to a multiple of `multiple`, the extra added on the trailing edge.
Pad(b, margin, multiple) ==
    Bounds(b.x - margin, b.y - margin,
           RoundUp(b.width + 2 * margin, multiple),
           RoundUp(b.height + 2 * margin, multiple))

\* Bounds.clamp: the intersection of the rectangle with the extent.
Clamp(b, e) ==
    LET x0 == Min(Max(b.x, 0), e.width)
        y0 == Min(Max(b.y, 0), e.height)
        x1 == Max(Min(b.x + b.width, e.width), x0)
        y1 == Max(Min(b.y + b.height, e.height), y0)
    IN  Bounds(x0, y0, x1 - x0, y1 - y0)

(***************************************************************************)
(* Document.check_color_mode                                               *)
(***************************************************************************)
ColorModels == {"RGBA", "CMYKA", "GRAYA", "XYZA", "LABA"}
ColorDepths == {"U8", "U16", "F16", "F32"}

\* msg_fmt.format(a0, a1, a2)
MsgFmt(a0, a1, a2) ==
    <<"Incompatible document: Color ", a0, " must be ", a1,
      " (current ", a0, ": ", a2, ")">>

check_color_mode_swapped(model, depth) ==
    IF depth # "U8" THEN <<FALSE, MsgFmt("depth", "8-bit integer", depth)>>
    ELSE IF model # "RGBA" THEN <<FALSE, MsgFmt("model", "RGB/Alpha", model)>>
    ELSE <<TRUE, None>>

check_color_mode(model, depth) ==
    IF model # "RGBA" THEN <<FALSE, MsgFmt("model", "RGB/Alpha", model)>>
    ELSE IF depth # "U8" THEN <<FALSE, MsgFmt("depth", "8-bit integer", depth)>>
    ELSE <<TRUE, None>>

CheckColorMode ==
    /\ ret' = [op |-> "check_color_mode", model |-> colorModel,
               depth |-> colorDepth,
               value |-> check_color_mode(colorModel, colorDepth)]
    /\ UNCHANGED <<colorVars, maskVars, layerVars, poseVars>>

\* the user converts the document to another colour space
SetColorSpace ==
    \E m \in ColorModels, d \in ColorDepths :
        /\ <<m, d>> # <<colorModel, colorDepth>>
        /\ colorModel' = m
        /\ colorDepth' = d
        /\ UNCHANGED <<maskVars, layerVars, poseVars, ret>>

(***************************************************************************)
(* krita.Selection                                                         *)
(***************************************************************************)
MaxDim == 9
Multiple == 8
Opaque == 255
Soft == 128

\* grow and feather fractions in [0,1], as <<numerator, denominator>>
Fractions == {<<0, 1>>, <<1, 8>>, <<1, 1>>}

\* A selection: its exact bounds, an optional single soft pixel ("first" or
\* "last" pixel of the bounds) and the width of the soft rim left by feather.
Sel(x, y, w, h, soft, rim) ==
    [x |-> x, y |-> y, width |-> w, height |-> h, soft |-> soft, rim |-> rim]

SelBounds(s) == Bounds(s.x, s.y, s.width, s.height)

\* the selection channel at pixel (px, py)
SelPixel(s, px, py) ==
    IF px < s.x \/ py < s.y \/ px >= s.x + s.width \/ py >= s.y + s.height
    THEN 0
    ELSE IF \/ px < s.x + s.rim \/ py < s.y + s.rim
            \/ px >= s.x + s.width - s.rim \/ py >= s.y + s.height - s.rim
    THEN Soft
    ELSE IF s.soft = "first" /\ px = s.x /\ py = s.y THEN Soft
    ELSE IF s.soft = "last" /\ px = s.x + s.width - 1 /\ py = s.y + s.height - 1
    THEN Soft
    ELSE Opaque

\* selection.pixelData(x, y, w, h): one byte per pixel, row by row
SelPixelData(s, b) ==
    IF b.width <= 0 \/ b.height <= 0 THEN << >>
    ELSE [i \in 1..(b.width * b.height) |->
            SelPixel(s, b.x + ((i - 1) % b.width), b.y + ((i - 1) \div b.width))]

\* selection.grow(px, py): dilation by px pixels on every side
SelGrow(s, px) == Sel(s.x - px, s.y - px, s.width + 2 * px, s.height + 2 * px, "none", s.rim)

\* selection.feather(radius): blur; the exact bounds spread by 0..radius
SelFeather(s, radius, spread) ==
    Sel(s.x - spread, s.y - spread, s.width + 2 * spread, s.height + 2 * spread,
        s.soft, s.rim + spread + radius)

(***************************************************************************)
(* Document.create_mask_from_selection                                     *)
(***************************************************************************)
\* int(fraction * Extent(...).diagonal): the floor of (n/d) * sqrt(w^2 + h^2)
IntTimesDiagonal(fr, e) ==
    CHOOSE k \in 0..(e.width + e.height) :
        /\ (k * fr[2]) * (k * fr[2]) <= fr[1] * fr[1] * DiagonalSq(e)
        /\ ((k + 1) * fr[2]) * ((k + 1) * fr[2]) > fr[1] * fr[1] * DiagonalSq(e)

selection_is_entire_document_no_width(s, e) ==
    LET bounds == SelBounds(s)
        mask == SelPixelData(s, bounds)
    IN  IF bounds.x > 0 \/ bounds.y > 0 THEN FALSE
        ELSE IF bounds.height + bounds.y < e.height THEN FALSE
        ELSE \A i \in 1..Len(mask) : mask[i] = Opaque

selection_is_entire_document_strict_origin(s, e) ==
    LET bounds == SelBounds(s)
        mask == SelPixelData(s, bounds)
    IN  IF bounds.x >= 0 \/ bounds.y >= 0 THEN FALSE
        ELSE IF bounds.width + bounds.x < e.width \/ bounds.height + bounds.y < e.height
        THEN FALSE
        ELSE \A i \in 1..Len(mask) : mask[i] = Opaque

selection_is_entire_document(s, e) ==
    LET bounds == SelBounds(s)
        mask == SelPixelData(s, bounds)
    IN  IF bounds.x > 0 \/ bounds.y > 0 THEN FALSE
        ELSE IF bounds.width + bounds.x < e.width \/ bounds.height + bounds.y < e.height
        THEN FALSE
        ELSE \A i \in 1..Len(mask) : mask[i] = Opaque

\* lines 50-64, the selection being present and not the entire document
mask_of_selection_unpadded(user_selection, e, grow, feather, spread) ==
    LET dup == user_selection
        size_factor == Extent(dup.width, dup.height)
        grow_pixels == IntTimesDiagonal(grow, size_factor)
        feather_radius == IntTimesDiagonal(feather, size_factor)
        grown == IF grow_pixels > 0 THEN SelGrow(dup, grow_pixels) ELSE dup
        sel == IF feather_radius > 0
               THEN SelFeather(grown, feather_radius, spread * feather_radius)
               ELSE grown
        b0 == SelBounds(sel)
        b2 == Clamp(b0, e)
    IN  [value |-> [bounds |-> b2, data |-> SelPixelData(sel, b2)],
         calls |-> <<"duplicate">>
                   \o (IF grow_pixels > 0 THEN <<"grow">> ELSE << >>)
                   \o (IF feather_radius > 0 THEN <<"feather">> ELSE << >>)
                   \o <<"pixelData">>]

mask_of_selection(user_selection, e, grow, feather, spread) ==
    LET dup == user_selection
        size_factor == Extent(dup.width, dup.height)
        grow_pixels == IntTimesDiagonal(grow, size_factor)
        feather_radius == IntTimesDiagonal(feather, size_factor)
        grown == IF grow_pixels > 0 THEN SelGrow(dup, grow_pixels) ELSE dup
        sel == IF feather_radius > 0
               THEN SelFeather(grown, feather_radius, spread * feather_radius)
               ELSE grown
        b0 == SelBounds(sel)
        b1 == Pad(b0, feather_radius, Multiple)
        b2 == Clamp(b1, e)
    IN  [value |-> [bounds |-> b2, data |-> SelPixelData(sel, b2)],
         calls |-> <<"duplicate">>
                   \o (IF grow_pixels > 0 THEN <<"grow">> ELSE << >>)
                   \o (IF feather_radius > 0 THEN <<"feather">> ELSE << >>)
                   \o <<"pixelData">>]

create_mask_from_selection(user_selection, e, grow, feather, spread) ==
    IF user_selection = None THEN [value |-> None, calls |-> << >>]
    ELSE IF selection_is_entire_document(user_selection, e)
    THEN [value |-> None, calls |-> <<"pixelData">>]
    ELSE mask_of_selection(user_selection, e, grow, feather, spread)

CreateMaskFromSelection ==
    \E grow \in Fractions, feather \in Fractions, spread \in {0, 1} :
        /\ ret' = [op |-> "create_mask_from_selection", grow |-> grow,
                   feather |-> feather]
                  @@ create_mask_from_selection(selection, extent, grow, feather, spread)
        /\ UNCHANGED <<colorVars, maskVars, layerVars, poseVars>>

(***************************************************************************)
(* krita.Node pixels and the composited projection                         *)
(***************************************************************************)
GridW == 2
GridH == 2
MaxLayers == 7
LayerIds == 1..MaxLayers
Points == (0..(GridW - 1)) \X (0..(GridH - 1))
Blank == [p \in Points |-> 0]

InBounds(b, p) ==
    /\ b.x <= p[1] /\ p[1] < b.x + b.width
    /\ b.y <= p[2] /\ p[2] < b.y + b.height

PixelIndex(b, p) == (p[2] - b.y) * b.width + (p[1] - b.x) + 1

\* node.setPixelData(data, x, y, w, h)
SetPixelData(c, data, b) ==
    [p \in Points |-> IF InBounds(b, p) THEN data[PixelIndex(b, p)] ELSE c[p]]

\* pixelData(x, y, w, h) of a paint device: row by row, 0 outside the canvas
PixelData(c, b) ==
    IF b.width <= 0 \/ b.height <= 0 THEN << >>
    ELSE [i \in 1..(b.width * b.height) |->
            LET p == <<b.x + ((i - 1) % b.width), b.y + ((i - 1) \div b.width)>>
            IN  IF p \in Points THEN c[p] ELSE 0]

SetMin(S) == CHOOSE m \in S : \A n \in S : m <= n
SetMax(S) == CHOOSE m \in S : \A n \in S : m >= n

\* Bounds.from_qrect(layer.bounds()): the exact bounds of the layer's pixels
LayerBounds(c) ==
    LET used == {p \in Points : c[p] # 0}
        xs == {p[1] : p \in used}
        ys == {p[2] : p \in used}
    IN  IF used = {} THEN Bounds(0, 0, 0, 0)
        ELSE Bounds(SetMin(xs), SetMin(ys),
                    SetMax(xs) - SetMin(xs) + 1, SetMax(ys) - SetMin(ys) + 1)

\* Image.create(extent, fill=0)
ImageCreate(e, fill) ==
    [extent |-> e, data |-> [i \in 1..(e.width * e.height) |-> fill]]

\* doc.refreshProjection(): per pixel the top-most visible root child
Compose(ns, vis, cont) ==
    [p \in Points |->
        LET shown == {i \in 1..Len(ns) : vis[ns[i]] /\ cont[ns[i]][p] # 0}
        IN  IF shown = {} THEN 0 ELSE cont[ns[SetMax(shown)]][p]]

Call(name, args) == [call |-> name, args |-> args]

(***************************************************************************)
(* Document.get_image, Document.hide_layer                                 *)
(***************************************************************************)
FullBounds == Bounds(0, 0, extent.width, extent.height)

\* the rectangles inside the canvas that callers pass as bounds
Rects ==
    LET all == {Bounds(x, y, w, h) : x \in 0..(GridW - 1), y \in 0..(GridH - 1),
                                     w \in 1..GridW, h \in 1..GridH}
    IN  {b \in all : b.x + b.width <= GridW /\ b.y + b.height <= GridH}

Range(f) == {f[i] : i \in DOMAIN f}

\* every layer of the document: the root's children and the nested ones
DocLayers == Range(nodes) \cup grouped

\* The outcome of get_image: visibility, projection and the record of the call.
\* `fails`: the read of line 75 raises.
get_image(bounds, exclude_layer, fails) ==
    LET restore_layer == exclude_layer # NoLayer /\ visible[exclude_layer]
        hidden == IF restore_layer THEN [visible EXCEPT ![exclude_layer] = FALSE]
                  ELSE visible
        proj1 == IF restore_layer THEN Compose(nodes, hidden, content) ELSE projection
        b == IF bounds = None THEN FullBounds ELSE bounds
        img == [extent |-> BoundsExtent(b), data |-> PixelData(proj1, b)]
        pre == IF restore_layer
               THEN <<Call("setVisible", <<exclude_layer, FALSE>>),
                      Call("refreshProjection", << >>)>>
               ELSE << >>
        post == IF restore_layer
                THEN <<Call("setVisible", <<exclude_layer, TRUE>>),
                       Call("refreshProjection", << >>)>>
                ELSE << >>
    IN  IF fails
        THEN [visible |-> hidden, projection |-> proj1,
              ret |-> [op |-> "get_image", exclude_layer |-> exclude_layer,
                       was_visible |-> restore_layer, bounds |-> b,
                       calls |-> pre \o <<Call("pixelData", b)>>,
                       value |-> Raised("pixelData")]]
        ELSE [visible |-> visible,
              projection |-> IF restore_layer THEN Compose(nodes, visible, content)
                             ELSE projection,
              ret |-> [op |-> "get_image", exclude_layer |-> exclude_layer,
                       was_visible |-> restore_layer, bounds |-> b,
                       calls |-> pre \o <<Call("pixelData", b)>> \o post,
                       value |-> img]]

GetImage ==
    \E bounds \in {None} \cup Rects, exclude_layer \in {NoLayer} \cup DocLayers,
       fails \in BOOLEAN :
        LET out == get_image(bounds, exclude_layer, fails)
        IN  /\ visible' = out.visible
            /\ projection' = out.projection
            /\ ret' = out.ret
            /\ UNCHANGED <<colorVars, maskVars, nodes, grouped, kind, content, svgs,
                           poseVars>>

HideLayer ==
    \E layer \in DocLayers :
        /\ visible' = [visible EXCEPT ![layer] = FALSE]
        /\ projection' = Compose(nodes, visible', content)
        /\ ret' = [op |-> "hide_layer", layer |-> layer,
                   calls |-> <<Call("setVisible", <<layer, FALSE>>),
                               Call("refreshProjection", << >>)>>,
                   value |-> layer]
        /\ UNCHANGED <<colorVars, maskVars, nodes, grouped, kind, content, svgs,
                       poseVars>>

(***************************************************************************)
(* Document.set_layer_content, Document.get_layer_image                    *)
(***************************************************************************)
\* the images callers write: a flat fill and a two-tone pattern
Images(b) ==
    {[extent |-> BoundsExtent(b), data |-> [i \in 1..(b.width * b.height) |-> 1]],
     [extent |-> BoundsExtent(b), data |-> [i \in 1..(b.width * b.height) |-> 1 + (i % 2)]]}

\* the setPixelData calls of set_layer_content, in order
set_layer_content_no_blank(layer_bounds, img, bounds) ==
    <<[data |-> img.data, bounds |-> bounds]>>

set_layer_content_writes(layer_bounds, img, bounds) ==
    (IF layer_bounds # bounds
     THEN <<[data |-> ImageCreate(BoundsExtent(layer_bounds), 0).data,
             bounds |-> layer_bounds]>>
     ELSE << >>)
    \o <<[data |-> img.data, bounds |-> bounds]>>

RECURSIVE ApplyWrites(_, _)
ApplyWrites(c, ws) ==
    IF ws = << >> THEN c
    ELSE ApplyWrites(SetPixelData(c, Head(ws).data, Head(ws).bounds), Tail(ws))

SetLayerContent ==
    \E layer \in {l \in DocLayers : kind[l] = "paintlayer"}, bounds \in Rects :
        \E img \in Images(bounds) :
            LET layer_bounds == LayerBounds(content[layer])
                ws == set_layer_content_writes(layer_bounds, img, bounds)
            IN  /\ content' = [content EXCEPT ![layer] = ApplyWrites(@, ws)]
                /\ visible' = [visible EXCEPT ![layer] = TRUE]
                /\ projection' = Compose(nodes, visible', content')
                /\ ret' = [op |-> "set_layer_content", layer |-> layer,
                           img |-> img, bounds |-> bounds,
                           layer_bounds |-> layer_bounds, before |-> content[layer],
                           writes |-> ws, value |-> layer]
                /\ UNCHANGED <<colorVars, maskVars, nodes, grouped, kind, svgs, poseVars>>

GetLayerImage ==
    \E layer \in {l \in DocLayers : kind[l] = "paintlayer"},
       bounds \in {None, Bounds(0, 0, GridW, GridH)} :
        LET b == IF bounds = None THEN LayerBounds(content[layer]) ELSE bounds
            data == PixelData(content[layer], b)
        IN  /\ ret' = [op |-> "get_layer_image", layer |-> layer, bounds |-> b,
                       value |-> IF Len(data) >= b.width * b.height
                                 THEN [extent |-> BoundsExtent(b), data |-> data]
                                 ELSE Raised("AssertionError")]
            /\ UNCHANGED <<colorVars, maskVars, layerVars, poseVars>>

(***************************************************************************)
(* _find_layer_above, Document.insert_layer, Document.insert_vector_layer  *)
(***************************************************************************)
\* nodes.index(x), counted from 1; 0 when x is not in the list (ValueError)
IndexOf(ns, x) ==
    IF x \in Range(ns) THEN SetMin({i \in 1..Len(ns) : ns[i] = x}) ELSE 0

ValueError == [raised |-> TRUE, node |-> NoLayer]
Found(n) == [raised |-> FALSE, node |-> n]

find_layer_above_self(ns, layer_below) ==
    IF layer_below # NoLayer
    THEN IF IndexOf(ns, layer_below) = 0 THEN ValueError
         ELSE Found(layer_below)
    ELSE Found(NoLayer)

_find_layer_above(ns, layer_below) ==
    IF layer_below # NoLayer
    THEN LET index == IndexOf(ns, layer_below) - 1
         IN  IF index < 0 THEN ValueError
             ELSE IF index >= 1 THEN Found(ns[index])
             ELSE Found(NoLayer)
    ELSE Found(NoLayer)

\* rootNode().addChildNode(child, above): child goes directly above `above`,
\* on top of all children when above is None
AddChildNode(ns, child, above) ==
    IF above = NoLayer THEN Append(ns, child)
    ELSE LET i == IndexOf(ns, above)
         IN  SubSeq(ns, 1, i) \o <<child>> \o SubSeq(ns, i + 1, Len(ns))

\* createNode / createVectorLayer: a node with an id no layer of the document has
NewLayer == SetMin(LayerIds \ DocLayers)

\* the image insert_layer is given
InsertImage == [extent |-> Extent(1, 1), data |-> <<1>>]
InsertBounds == Bounds(0, 0, 1, 1)

InsertLayer ==
    /\ LayerIds \ DocLayers # {}
    /\ \E below \in {NoLayer} \cup DocLayers :
        LET layer == NewLayer
            above == _find_layer_above(nodes, below)
        IN  IF above.raised
            THEN /\ ret' = [op |-> "insert_layer", below |-> below, before |-> nodes,
                            above |-> above, layer |-> NoLayer]
                 /\ UNCHANGED <<colorVars, maskVars, layerVars, poseVars>>
            ELSE /\ nodes' = AddChildNode(nodes, layer, above.node)
                 /\ kind' = [kind EXCEPT ![layer] = "paintlayer"]
                 /\ visible' = [visible EXCEPT ![layer] = TRUE]
                 /\ content' = [content EXCEPT
                                  ![layer] = SetPixelData(Blank, InsertImage.data, InsertBounds)]
                 /\ projection' = Compose(nodes', visible', content')
                 /\ ret' = [op |-> "insert_layer", below |-> below, before |-> nodes,
                            above |-> above, layer |-> layer]
                 /\ UNCHANGED <<colorVars, maskVars, grouped, svgs, poseVars>>

InsertVectorLayer ==
    /\ LayerIds \ DocLayers # {}
    /\ \E below \in {NoLayer} \cup DocLayers :
        LET layer == NewLayer
            above == _find_layer_above(nodes, below)
        IN  IF above.raised
            THEN /\ ret' = [op |-> "insert_vector_layer", below |-> below,
                            before |-> nodes, above |-> above, layer |-> NoLayer]
                 /\ UNCHANGED <<colorVars, maskVars, layerVars, poseVars>>
            ELSE /\ nodes' = AddChildNode(nodes, layer, above.node)
                 /\ kind' = [kind EXCEPT ![layer] = "vectorlayer"]
                 /\ visible' = [visible EXCEPT ![layer] = TRUE]
                 /\ svgs' = [svgs EXCEPT ![layer] = <<"svg">>]
                 /\ projection' = Compose(nodes', visible', content)
                 /\ ret' = [op |-> "insert_vector_layer", below |-> below,
                            before |-> nodes, above |-> above, layer |-> layer]
                 /\ UNCHANGED <<colorVars, maskVars, grouped, content, poseVars>>

(***************************************************************************)
(* Pose (pose.py) and the host state PoseLayers.update reads               *)
(***************************************************************************)
MaxJoint == 1
DocIds == {1, 2}
NoDocument == 0
PoseLayerIds == {1, 2, 3}

\* document 1 holds a vector layer (1) and a paint layer (2), document 2 a
\* vector layer (3)
LayerDoc(l) == IF l = 3 THEN 2 ELSE 1
LayerType(l) == IF l = 2 THEN "paintlayer" ELSE "vectorlayer"

\* the shapes of a vector layer: where the user put the joints and where the
\* bones are drawn
Shapes(j, b) == [joints |-> j, bones |-> b]

\* Pose(extent): a new skeleton model; `id` tells the objects apart
Pose(id, e) == [id |-> id, extent |-> e, joints |-> -1]

\* pose.update(shapes, resolution): the model takes over the joints; the bones
\* that do not follow them come back as an SVG fragment, None when all do
PoseUpdate(pose, shp, resolution) ==
    [pose |-> [pose EXCEPT !.joints = shp.joints],
     changes |-> IF shp.bones # shp.joints
                 THEN [bones |-> shp.joints, scale |-> resolution]
                 ELSE None]

\* layer.addShapesFromSvg(changes)
AddShapesFromSvg(shp, changes) == [shp EXCEPT !.bones = changes.bones]

\* Document.resolution: self._doc.resolution() / 72.0, as <<dpi, 72>>
Resolution(doc) == <<doc.dpi, 72>>

\* an id no tracked Pose has
FreshPose(m) == SetMin((1..(Cardinality(DOMAIN m) + 1)) \ {m[k].id : k \in DOMAIN m})

(***************************************************************************)
(* PoseLayers.update                                                       *)
(***************************************************************************)
Skip(m, shp, ad, layer) ==
    [_layers |-> m, shapes |-> shp,
     ret |-> [op |-> "update", document |-> ad, layer |-> layer, skipped |-> TRUE,
              raised |-> FALSE, constructed |-> 0, svg_writes |-> << >>,
              before |-> m, repeat |-> FALSE]]

Reconcile(m, shp, docs, ad, layer, stored, made, again) ==
    LET up == PoseUpdate(stored[layer], shp[layer], Resolution(docs[ad]))
        wrote == up.changes # None
    IN  [_layers |-> [stored EXCEPT ![layer] = up.pose],
         shapes |-> IF wrote
                    THEN [shp EXCEPT ![layer] = AddShapesFromSvg(@, up.changes)]
                    ELSE shp,
         ret |-> [op |-> "update", document |-> ad, layer |-> layer,
                  skipped |-> FALSE, raised |-> FALSE, constructed |-> made,
                  svg_writes |-> IF wrote THEN <<up.changes>> ELSE << >>,
                  before |-> m, repeat |-> again]]

\* _layers[id] = Pose(extent) in place of setdefault
pose_layers_update_assign(m, shp, ad, docs, again) ==
    IF ad = NoDocument THEN Skip(m, shp, ad, NoLayer)
    ELSE LET layer == docs[ad].activeNode
         IN  IF layer = NoLayer \/ LayerType(layer) # "vectorlayer"
             THEN Skip(m, shp, ad, layer)
             ELSE LET fresh == Pose(FreshPose(m), docs[ad].extent)
                      stored == [k \in DOMAIN m \cup {layer} |->
                                    IF k = layer THEN fresh ELSE m[k]]
                  IN  Reconcile(m, shp, docs, ad, layer, stored, 1, again)

\* the layer type not checked: a paint layer gets an entry, then shapes() fails
pose_layers_update_any_type(m, shp, ad, docs, again) ==
    IF ad = NoDocument THEN Skip(m, shp, ad, NoLayer)
    ELSE LET layer == docs[ad].activeNode
         IN  IF layer = NoLayer
             THEN Skip(m, shp, ad, layer)
             ELSE LET fresh == Pose(FreshPose(m), docs[ad].extent)
                      stored == [k \in DOMAIN m \cup {layer} |->
                                    IF k \in DOMAIN m THEN m[k] ELSE fresh]
                  IN  IF LayerType(layer) # "vectorlayer"
                      THEN [_layers |-> stored, shapes |-> shp,
                            ret |-> [op |-> "update", document |-> ad,
                                     layer |-> layer, skipped |-> TRUE,
                                     raised |-> TRUE, constructed |-> 1,
                                     svg_writes |-> << >>, before |-> m,
                                     repeat |-> FALSE]]
                      ELSE Reconcile(m, shp, docs, ad, layer, stored, 1, again)

\* lines 175-186.  Pose(doc.extent), the argument of setdefault, is built on
\* every tick that gets that far; setdefault stores it only for a new key.
pose_layers_update(m, shp, ad, docs, again) ==
    IF ad = NoDocument THEN Skip(m, shp, ad, NoLayer)
    ELSE LET layer == docs[ad].activeNode
         IN  IF layer = NoLayer \/ LayerType(layer) # "vectorlayer"
             THEN Skip(m, shp, ad, layer)
             ELSE LET fresh == Pose(FreshPose(m), docs[ad].extent)
                      stored == [k \in DOMAIN m \cup {layer} |->
                                    IF k \in DOMAIN m THEN m[k] ELSE fresh]
                  IN  Reconcile(m, shp, docs, ad, layer, stored, 1, again)

\* the timer fires
Update ==
    LET again == /\ ret.op = "update"
                 /\ ~ret.skipped
                 /\ ret.document = activeDocument
                 /\ activeDocument # NoDocument
                 /\ ret.layer = documents[activeDocument].activeNode
        out == pose_layers_update(_layers, shapes, activeDocument, documents, again)
    IN  /\ _layers' = out._layers
        /\ shapes' = out.shapes
        /\ ret' = out.ret
        /\ UNCHANGED <<colorVars, maskVars, layerVars, activeDocument, documents, alive>>

(***************************************************************************)
(* What the user does between ticks                                        *)
(***************************************************************************)
PoseExtents == {Extent(GridW, GridH), Extent(MaxDim, MaxDim)}
Host == [op |-> "host"]

ActivateDocument ==
    \E d \in DocIds \cup {NoDocument} :
        /\ d # activeDocument
        /\ activeDocument' = d
        /\ ret' = Host
        /\ UNCHANGED <<colorVars, maskVars, layerVars, documents, shapes, alive, _layers>>

ActivateNode ==
    \E d \in DocIds, l \in alive \cup {NoLayer} :
        /\ l # NoLayer => LayerDoc(l) = d
        /\ l # documents[d].activeNode
        /\ documents' = [documents EXCEPT ![d].activeNode = l]
        /\ ret' = Host
        /\ UNCHANGED <<colorVars, maskVars, layerVars, activeDocument, shapes, alive,
                       _layers>>

ResizeDocument ==
    \E e \in PoseExtents :
        /\ e # documents[1].extent
        /\ documents' = [documents EXCEPT ![1].extent = e]
        /\ ret' = Host
        /\ UNCHANGED <<colorVars, maskVars, layerVars, activeDocument, shapes, alive,
                       _layers>>

MoveJoints ==
    \E j \in 0..MaxJoint :
        /\ 1 \in alive
        /\ j # shapes[1].joints
        /\ shapes' = [shapes EXCEPT ![1].joints = j]
        /\ ret' = Host
        /\ UNCHANGED <<colorVars, maskVars, layerVars, activeDocument, documents, alive,
                       _layers>>

DeleteLayer ==
    \E l \in alive :
        /\ LayerType(l) = "vectorlayer"
        /\ alive' = alive \ {l}
        /\ documents' = [documents EXCEPT ![LayerDoc(l)].activeNode =
                                             IF @ = l THEN NoLayer ELSE @]
        /\ ret' = Host
        /\ UNCHANGED <<colorVars, maskVars, layerVars, activeDocument, shapes, _layers>>

\* the user shows a layer again
ShowLayer ==
    \E layer \in DocLayers :
        /\ ~visible[layer]
        /\ visible' = [visible EXCEPT ![layer] = TRUE]
        /\ projection' = Compose(nodes, visible', content)
        /\ ret' = Host
        /\ UNCHANGED <<colorVars, maskVars, nodes, grouped, kind, content, svgs,
                       poseVars>>

(***************************************************************************)
(* Initial states and specifications, one per part of the facade           *)
(***************************************************************************)
Start == [op |-> "start"]

ColorIdle == colorModel = "RGBA" /\ colorDepth = "U8"
MaskIdle == extent = Extent(GridW, GridH) /\ selection = None
LayerIdle ==
    /\ nodes = << >>
    /\ grouped = {}
    /\ kind = [l \in LayerIds |-> "paintlayer"]
    /\ visible = [l \in LayerIds |-> TRUE]
    /\ content = [l \in LayerIds |-> Blank]
    /\ svgs = [l \in LayerIds |-> << >>]
    /\ projection = Blank
PoseIdle ==
    /\ activeDocument = NoDocument
    /\ documents = [d \in DocIds |->
                      [extent |-> Extent(GridW, GridH), activeNode |-> NoLayer,
                       dpi |-> 72 * d]]
    /\ shapes = [l \in {l \in PoseLayerIds : LayerType(l) = "vectorlayer"} |->
                   Shapes(0, IF l = 1 THEN 0 ELSE MaxJoint)]
    /\ alive = PoseLayerIds
    /\ _layers = << >>

\* check_color_mode on documents of every colour space
InitColor ==
    /\ colorModel \in ColorModels
    /\ colorDepth \in ColorDepths
    /\ MaskIdle /\ LayerIdle /\ PoseIdle
    /\ ret = Start
NextColor == CheckColorMode \/ SetColorSpace
SpecColor == InitColor /\ [][NextColor]_vars

\* create_mask_from_selection on documents with and without a selection
DocSizes == {MaxDim - 1, MaxDim}
SelOrigins == {-1, 0, 1}
SelSizes(n) == {1, n \div 2, n - 1, n, n + 1}
InitMask ==
    /\ extent \in {Extent(w, MaxDim) : w \in DocSizes}
    /\ selection \in {None} \cup
          {Sel(x, y, w, h, soft, 0) :
              x \in SelOrigins, y \in SelOrigins,
              w \in SelSizes(extent.width), h \in SelSizes(extent.height),
              soft \in {"none", "last"}}
    /\ ColorIdle /\ LayerIdle /\ PoseIdle
    /\ ret = Start
NextMask == CreateMaskFromSelection
SpecMask == InitMask /\ [][NextMask]_vars

\* three layers with different pixels, each shown or hidden
Corner == <<GridW - 1, GridH - 1>>
InitImage ==
    /\ nodes = <<1, 2, 3>>
    /\ grouped = {}
    /\ kind = [l \in LayerIds |-> "paintlayer"]
    /\ visible \in {v \in [LayerIds -> BOOLEAN] : \A l \in LayerIds : l > 3 => v[l]}
    /\ content = [l \in LayerIds |->
                    IF l = 1 THEN [p \in Points |-> 1]
                    ELSE IF l = 2 THEN [p \in Points |-> IF p = <<0, 0>> THEN 2 ELSE 0]
                    ELSE IF l = 3 THEN [p \in Points |-> IF p = Corner THEN 3 ELSE 0]
                    ELSE Blank]
    /\ svgs = [l \in LayerIds |-> << >>]
    /\ projection = Compose(nodes, visible, content)
    /\ ColorIdle /\ MaskIdle /\ PoseIdle
    /\ ret = Start
NextImage == GetImage \/ HideLayer \/ ShowLayer
SpecImage == InitImage /\ [][NextImage]_vars

\* one paint layer, empty or with a rectangle or two opposite corners painted
EarlierContents ==
    {Blank, [p \in Points |-> IF p \in {<<0, 0>>, Corner} THEN 3 ELSE 0]}
    \cup {[p \in Points |-> IF InBounds(r, p) THEN 3 ELSE 0] : r \in Rects}
InitContent ==
    /\ nodes = <<1>>
    /\ grouped = {}
    /\ kind = [l \in LayerIds |-> "paintlayer"]
    /\ visible \in {v \in [LayerIds -> BOOLEAN] : \A l \in LayerIds : l > 1 => v[l]}
    /\ \E c \in EarlierContents : content = [l \in LayerIds |-> IF l = 1 THEN c ELSE Blank]
    /\ svgs = [l \in LayerIds |-> << >>]
    /\ projection = Compose(nodes, visible, content)
    /\ ColorIdle /\ MaskIdle /\ PoseIdle
    /\ ret = Start
NextContent == SetLayerContent \/ GetLayerImage \/ HideLayer
SpecContent == InitContent /\ [][NextContent]_vars

\* a root with three children, the top one a group that holds layer 4
InitInsert ==
    /\ nodes = <<1, 2, 3>>
    /\ grouped = {4}
    /\ kind = [l \in LayerIds |-> IF l = 3 THEN "grouplayer" ELSE "paintlayer"]
    /\ visible = [l \in LayerIds |-> TRUE]
    /\ content = [l \in LayerIds |-> Blank]
    /\ svgs = [l \in LayerIds |-> << >>]
    /\ projection = Blank
    /\ ColorIdle /\ MaskIdle /\ PoseIdle
    /\ ret = Start
NextInsert == InsertLayer \/ InsertVectorLayer
SpecInsert == InitInsert /\ [][NextInsert]_vars

\* the pose loop polling while the user works
InitPose ==
    /\ PoseIdle
    /\ ColorIdle /\ MaskIdle /\ LayerIdle
    /\ ret = Start
NextPose ==
    \/ Update
    \/ ActivateDocument
    \/ ActivateNode
    \/ ResizeDocument
    \/ MoveJoints
    \/ DeleteLayer
SpecPose == InitPose /\ [][NextPose]_vars

(***************************************************************************)
(* Properties                                                              *)
(***************************************************************************)
IsGetImage == ret.op = "get_image"
IsCreateMask == ret.op = "create_mask_from_selection" /\ selection # None
IsInsert == ret.op \in {"insert_layer", "insert_vector_layer"}
IsUpdate == ret.op = "update"
Zero == <<0, 1>>
One == <<1, 1>>

\* C1: get_image with a visible exclude_layer ends, on every exit path (a
\* failed read included), with the layer visible again and the projection
\* recomposited after the restore.
C1_RestoredOnEveryExit ==
    (IsGetImage /\ ret.was_visible) =>
        /\ visible[ret.exclude_layer]
        /\ Len(ret.calls) >= 2
        /\ ret.calls[Len(ret.calls) - 1] = Call("setVisible", <<ret.exclude_layer, TRUE>>)
        /\ ret.calls[Len(ret.calls)] = Call("refreshProjection", << >>)
        /\ projection = Compose(nodes, visible, content)

\* the selection starts at the origin and spans the whole document
SpansDocument(s, e) ==
    s.x = 0 /\ s.y = 0 /\ s.width = e.width /\ s.height = e.height

AllOpaque(s) ==
    LET mask == SelPixelData(s, SelBounds(s))
    IN  \A i \in 1..Len(mask) : mask[i] = Opaque

\* C2: a selection that spans the document from the origin with every byte
\* 0xFF gives none for every grow and feather, and the selection is neither
\* duplicated nor grown nor feathered.
C2_FullSelectionIsNone ==
    (IsCreateMask /\ SpansDocument(selection, extent) /\ AllOpaque(selection)) =>
        /\ ret.value = None
        /\ \A i \in 1..Len(ret.calls) : ret.calls[i] \notin {"duplicate", "grow", "feather"}

C2_Witness ==
    /\ IsCreateMask /\ SpansDocument(selection, extent) /\ AllOpaque(selection)
    /\ ret.grow = One /\ ret.feather = One
    /\ ret.value = None

\* the bounds of the selection cover the whole document
Covers(s, e) ==
    s.x <= 0 /\ s.y <= 0 /\ s.x + s.width >= e.width /\ s.y + s.height >= e.height

WithinDocument(b, e) ==
    0 <= b.x /\ 0 <= b.y /\ b.x + b.width <= e.width /\ b.y + b.height <= e.height

\* C3: a selection whose bounds do not cover the whole document, opaque or
\* not, gives a Mask (never none) for every grow and feather, and the bounds of
\* the Mask lie within the document.
C3_SmallerSelectionIsMask ==
    (IsCreateMask /\ ~Covers(selection, extent)) =>
        /\ ret.value # None
        /\ WithinDocument(ret.value.bounds, extent)

C3_Witness ==
    /\ IsCreateMask /\ ~Covers(selection, extent) /\ AllOpaque(selection)
    /\ selection.x = 0 /\ selection.y = 0 /\ selection.height = extent.height
    /\ selection.width = extent.width - 1
    /\ ret.grow = One
    /\ ret.value # None
    /\ ret.value.bounds = Bounds(0, 0, extent.width, extent.height)

\* grow = 0 and feather = 0 on a selection inside the document that does not
\* cover it
PlainCall ==
    /\ IsCreateMask /\ ret.grow = Zero /\ ret.feather = Zero
    /\ WithinDocument(SelBounds(selection), extent)
    /\ ~Covers(selection, extent)

\* C4 as claimed: with grow = 0 and feather = 0 the Mask has the selection's
\* own bounds and the selection buffer read for them.
C4_BoundsAreSelectionBounds ==
    PlainCall =>
        /\ ret.value # None
        /\ ret.value.bounds = SelBounds(selection)
        /\ ret.value.data = SelPixelData(selection, SelBounds(selection))

NextMultipleOf8(n) == CHOOSE m \in n..(n + 7) : m % 8 = 0

\* C4, amended: with grow = 0 and feather = 0 the Mask keeps the selection's
\* origin, its width and height are the selection's rounded up to the next
\* multiple of 8 and cut at the document's edge, and its data is the
\* selection buffer read for those bounds; the bounds are the selection's own
\* when its width and height are multiples of 8.
C4_BoundsArePaddedSelectionBounds ==
    PlainCall =>
        LET b == Bounds(selection.x, selection.y,
                        Min(NextMultipleOf8(selection.width), extent.width - selection.x),
                        Min(NextMultipleOf8(selection.height), extent.height - selection.y))
        IN  /\ ret.value # None
            /\ ret.value.bounds = b
            /\ ret.value.data = SelPixelData(selection, b)
            /\ (selection.width % 8 = 0 /\ selection.height % 8 = 0)
                   => ret.value.bounds = SelBounds(selection)
            /\ ret.calls = <<"duplicate", "pixelData">>

C4_Witness ==
    /\ PlainCall
    /\ ret.value # None
    /\ ret.value.bounds.width > selection.width
    /\ ret.value.bounds.x + ret.value.bounds.width < extent.width

\* C5: set_layer_content with the layer's own bounds issues one pixel write,
\* the new data at bounds, and no blank fill; with other bounds it first
\* writes zeros over the whole prior bounds, then the new data at bounds, and
\* nothing of the prior content outside bounds is left.
C5_BlankFillThenWrite ==
    ret.op = "set_layer_content" =>
        LET new == [data |-> ret.img.data, bounds |-> ret.bounds]
            now == content[ret.layer]
        IN  IF ret.layer_bounds = ret.bounds
            THEN ret.writes = <<new>>
            ELSE /\ Len(ret.writes) = 2
                 /\ ret.writes[1].bounds = ret.layer_bounds
                 /\ Len(ret.writes[1].data) = ret.layer_bounds.width * ret.layer_bounds.height
                 /\ \A i \in 1..Len(ret.writes[1].data) : ret.writes[1].data[i] = 0
                 /\ \A p \in Points : ret.before[p] # 0 => InBounds(ret.writes[1].bounds, p)
                 /\ ret.writes[2] = new
                 /\ \A p \in Points :
                        now[p] = IF InBounds(ret.bounds, p)
                                 THEN ret.img.data[PixelIndex(ret.bounds, p)]
                                 ELSE 0

C5_Witness ==
    /\ ret.op = "set_layer_content"
    /\ ret.layer_bounds # ret.bounds
    /\ \E p \in Points : ret.before[p] # 0 /\ ~InBounds(ret.bounds, p)
    /\ \E p \in Points : ret.before[p] # 0 /\ InBounds(ret.bounds, p)

\* C6 as claimed: the new layer ends up immediately above the reference
\* layer, whatever its position, and topmost when there is no reference.
C6_NewLayerAboveReference ==
    IsInsert =>
        IF ret.below = NoLayer
        THEN ret.layer # NoLayer /\ nodes[Len(nodes)] = ret.layer
        ELSE /\ ret.layer # NoLayer
             /\ IndexOf(nodes, ret.layer) = IndexOf(nodes, ret.below) + 1

\* C6, amended: childNodes() being ordered bottom-most first, the anchor is
\* the sibling just before the reference layer L; for L at a later place than
\* the first the new layer goes between the anchor and L, immediately below L;
\* for L the first sibling, as for no reference, there is no anchor and the new
\* layer becomes the topmost sibling; for L not a child of the root the call
\* raises and adds nothing.  The other siblings keep their order.
C6_NewLayerBelowReference ==
    IsInsert =>
        LET i == IndexOf(ret.before, ret.below)
        IN  IF ret.below # NoLayer /\ i = 0
            THEN ret.above.raised /\ ret.layer = NoLayer /\ nodes = ret.before
            ELSE /\ ret.layer # NoLayer
                 /\ ret.layer \notin Range(ret.before)
                 /\ SelectSeq(nodes, LAMBDA n : n # ret.layer) = ret.before
                 /\ IF ret.below # NoLayer /\ i >= 2
                    THEN /\ ret.above.node = ret.before[i - 1]
                         /\ nodes[i - 1] = ret.before[i - 1]
                         /\ nodes[i] = ret.layer
                         /\ nodes[i + 1] = ret.below
                    ELSE /\ ret.above.node = NoLayer
                         /\ nodes[Len(nodes)] = ret.layer

C6_Witness ==
    /\ ret.op = "insert_layer"
    /\ ret.before = <<1, 2, 3>>
    /\ ret.below = 2
    /\ nodes = <<1, ret.layer, 2, 3>>

\* C7: a tick with no active document, no active layer or an active layer
\* that is no vector layer raises nothing, leaves the pose map as it was and
\* writes no SVG.
C7_NothingToDo ==
    (/\ IsUpdate
     /\ \/ ret.document = NoDocument
        \/ ret.layer = NoLayer
        \/ LayerType(ret.layer) # "vectorlayer") =>
        /\ ~ret.raised
        /\ _layers = ret.before
        /\ ret.svg_writes = << >>

C7_Witness ==
    /\ IsUpdate
    /\ ret.document = 1
    /\ ret.layer = 2
    /\ DOMAIN _layers = {1, 3}
    /\ shapes[1].bones # shapes[1].joints

\* C8: a tick that follows a tick on the same vector layer, the shapes not
\* touched in between, creates no skeleton model and writes no SVG; a tick
\* writes SVG only when the reconcile step reported a change.
C8_RepeatedTickCreatesNothing ==
    IsUpdate =>
        /\ ret.repeat => (ret.constructed = 0 /\ ret.svg_writes = << >>)
        /\ \A i \in 1..Len(ret.svg_writes) : ret.svg_writes[i] # None

\* C10: no step removes a tracked id or replaces its model, whose seed extent
\* stays; a step adds at most one id, in a tick, the id of the active vector
\* layer of that tick with a model seeded with the document's extent.
C10_MapOnlyGrows ==
    [][/\ \A k \in DOMAIN _layers :
            /\ k \in DOMAIN _layers'
            /\ _layers'[k].id = _layers[k].id
            /\ _layers'[k].extent = _layers[k].extent
       /\ Cardinality(DOMAIN _layers' \ DOMAIN _layers) <= 1
       /\ \A k \in DOMAIN _layers' \ DOMAIN _layers :
            /\ ret'.op = "update"
            /\ activeDocument # NoDocument
            /\ k = documents[activeDocument].activeNode
            /\ LayerType(k) = "vectorlayer"
            /\ _layers'[k].extent = documents[activeDocument].extent
            /\ \A j \in DOMAIN _layers : _layers[j].id # _layers'[k].id]_vars

C10_Witness ==
    /\ DOMAIN _layers = {1, 3}
    /\ 1 \notin alive
    /\ activeDocument = 1
    /\ _layers[1].extent # documents[1].extent
    /\ IsUpdate

\* C9: check_color_mode gives (true, none) exactly for model "RGBA" with depth
\* "U8"; otherwise (false, message), the message naming "model" with the
\* required and the actual model whenever the model is not "RGBA", and naming
\* "depth" with the required and the actual depth only when the model is
\* "RGBA" and the depth is not "U8".
C9_ColorMode ==
    ret.op = "check_color_mode" =>
        LET ok == ret.value[1]
            msg == ret.value[2]
        IN  /\ ok \in BOOLEAN
            /\ ok <=> (ret.model = "RGBA" /\ ret.depth = "U8")
            /\ ok => msg = None
            /\ ~ok =>
                /\ Len(msg) = 9
                /\ msg[2] \in {"model", "depth"}
                /\ msg[6] = msg[2]
                /\ msg[2] = "model" <=> ret.model # "RGBA"
                /\ msg[2] = "model" => (msg[4] = "RGB/Alpha" /\ msg[8] = ret.model)
                /\ msg[2] = "depth" => (msg[4] = "8-bit integer" /\ msg[8] = ret.depth)

C9_Witness ==
    /\ ret.op = "check_color_mode"
    /\ ret.model = "CMYKA" /\ ret.depth = "U16"
    /\ ret.value[1] = FALSE
    /\ ret.value[2][2] = "model"

====
